---- MODULE Spec2Model ----
(***************************************************************************)
(* A model of the agent / society layer (src/src/agent.rs) and of the      *)
(* neural layer it calls (src/backup/src_original/neural.rs).              *)
(*                                                                         *)
(* Numbers.  Every f64 scalar of the cognitive state, of a situation       *)
(* vector and of a decision is held in thousandths (1000 stands for 1.0).  *)
(* The u64 counters are held modulo U64 == 2^ExpBits: `+=` on a u64 wraps  *)
(* in a build without overflow checks (cargo's release profile), and the   *)
(* model keeps that wrap at a width TLC can enumerate.                     *)
(***************************************************************************)
EXTENDS Integers, Sequences, FiniteSets, TLC

\* ------------------------------------------------------------------ bounds
ExpBits == 12
MaxAgents == 3
MaxLog == 2
MaxCalls == 3
MaxDim == 2
MutBits == 3
MaxPop == 2
MaxIds == 3

\* ------------------------------------------------------- program constants
Scale == 1000
MaxAdjust == 100
LevelStep == 1000
SocialReward == 10
MinSociety == 2
FallbackLen == 3
GeneContext == 4
MaxLayerSize == 10000
MaxGeneCount == 10000
EngineBound == 2000
EngineStd == 100
BatchBound == 5000
GeneRate == 100

U64 == 2 ^ ExpBits
\* AgentDNA.mutations is a u32, held modulo 2^MutBits the same way
U32 == 2 ^ MutBits

VARIABLES
    agents,               \* AgentSociety.agents
    interaction_history,  \* AgentSociety.interaction_history
    pc,                   \* position inside simulate_interactions
    num_interactions,     \* its argument
    trial,                \* iterations of `for _ in 0..num_interactions` done
    agent1_idx,
    agent2_idx,
    interactions_created,
    sim_ret,              \* the value simulate_interactions returned last
    history0,             \* interaction_history when the current call began
    agent,                \* a free-standing IntelligentAgent
    ncalls,               \* calls made on `agent` since it was constructed
    layer,                \* a free-standing NeuralLayer
    net,                  \* a free-standing NeuralNetwork
    engine,               \* a GeneticEngine
    population,           \* the Vec<AgentDNA> the caller holds
    next_id,              \* the next id Uuid::new_v4 hands out
    ops,                  \* calls made on `population` since the caller got it
    call                  \* the last call outside simulate_interactions: its
                          \* arguments and what it returned

societyVars == <<agents, interaction_history, pc, num_interactions, trial,
                 agent1_idx, agent2_idx, interactions_created, sim_ret, history0>>
agentVars == <<agent, ncalls>>
neuralVars == <<layer, net>>
geneticVars == <<engine, population, next_id, ops>>
vars == <<societyVars, agentVars, neuralVars, geneticVars, call>>

\* what the actions of one component leave alone
outsideSociety == <<agentVars, neuralVars, geneticVars, call>>
outsideAgent == <<societyVars, neuralVars, geneticVars>>
outsideLayer == <<societyVars, agentVars, net, geneticVars>>
outsideNetwork == <<societyVars, agentVars, layer, geneticVars>>
outsideGenetic == <<societyVars, agentVars, neuralVars>>

\* ----------------------------------------------------------------- helpers
Min(a, b) == IF a < b THEN a ELSE b
Max(a, b) == IF a > b THEN a ELSE b
Abs(x) == IF x < 0 THEN -x ELSE x

\* f64::clamp
Clamp(x, lo, hi) == IF x < lo THEN lo ELSE IF x > hi THEN hi ELSE x

\* Vec::contains
Contains(s, x) == \E i \in 1..Len(s) : s[i] = x

NoDuplicates(s) == \A i, j \in 1..Len(s) : i # j => s[i] # s[j]

IsPrefix(s, t) == Len(s) <= Len(t) /\ SubSeq(t, 1, Len(s)) = s

\* a * (num / 10), for the factors 0.5, 0.3, 0.2 of CognitiveState::update;
\* exact for the adjustments the model draws (multiples of 0.01)
Tenths(a, num) == IF a >= 0 THEN (a * num) \div 10 ELSE -(((-a) * num) \div 10)

\* ------------------------------------------------------------- NeuralLayer
\* ReLU and LeakyReLU are the two activations whose value is arithmetic; the
\* other four (Sigmoid, Tanh, ELU, Swish) need exp and are left out.
ActivationTypes == {"ReLU", "LeakyReLU"}

\* NeuralLayer::apply_activation
ApplyActivation(activation, x) ==
    CASE activation = "ReLU" -> Max(x, 0)
      [] activation = "LeakyReLU" -> IF x > 0 THEN x ELSE -((-x) \div 100)

\* weight_row.iter().zip(inputs.iter()).map(|(w, x)| w * x).sum()
RECURSIVE DotUpTo(_, _, _)
DotUpTo(row, inputs, n) ==
    IF n = 0 THEN 0
    ELSE DotUpTo(row, inputs, n - 1) + (row[n] * inputs[n]) \div Scale
WeightedSum(row, inputs) == DotUpTo(row, inputs, Min(Len(row), Len(inputs)))

\* the validation of NeuralLayer::new
LayerNewOk(input_size, output_size) ==
    /\ ~(input_size = 0 \/ output_size = 0)
    /\ ~(input_size > MaxLayerSize \/ output_size > MaxLayerSize)

\* NeuralLayer::new, with `weights` the matrix the normal distribution gave
LayerNew(input_size, output_size, activation, weights) ==
    [weights |-> weights, biases |-> [j \in 1..output_size |-> 0],
     activation |-> activation, input_size |-> input_size,
     output_size |-> output_size]

Failed == [ok |-> FALSE, out |-> <<>>]

LayerForwardBad(l, inputs) ==
    [ok |-> TRUE,
     out |-> [j \in 1..Min(Len(l.weights), Len(l.biases)) |->
                ApplyActivation(l.activation,
                    WeightedSum(l.weights[j], inputs) + l.biases[j])]]
\* NeuralLayer::forward: [ok, out]
LayerForward(l, inputs) ==
    IF Len(inputs) # l.input_size
    THEN Failed
    ELSE [ok |-> TRUE,
          out |-> [j \in 1..Min(Len(l.weights), Len(l.biases)) |->
                     ApplyActivation(l.activation,
                         WeightedSum(l.weights[j], inputs) + l.biases[j])]]

LayerUpdateWeightsBad(l, new_weights) ==
    IF Len(new_weights) # l.output_size
    THEN [ok |-> FALSE, layer |-> l]
    ELSE [ok |-> TRUE, layer |-> [l EXCEPT !.weights = new_weights]]
\* NeuralLayer::update_weights: [ok, layer]
LayerUpdateWeights(l, new_weights) ==
    IF Len(new_weights) # l.output_size
    THEN [ok |-> FALSE, layer |-> l]
    ELSE IF \E i \in 1..Len(new_weights) : Len(new_weights[i]) # l.input_size
    THEN [ok |-> FALSE, layer |-> l]
    ELSE [ok |-> TRUE, layer |-> [l EXCEPT !.weights = new_weights]]

\* ----------------------------------------------------------- NeuralNetwork
\* a matrix of output_size rows of input_size entries, all equal to w
UniformWeights(input_size, output_size, w) ==
    [j \in 1..output_size |-> [i \in 1..input_size |-> w]]

NetworkNewBad(layer_sizes, activations, w) ==
    IF Len(layer_sizes) < 2 THEN [ok |-> FALSE, layers |-> <<>>]
    ELSE IF Len(activations) # Len(layer_sizes) - 1 THEN [ok |-> FALSE, layers |-> <<>>]
    ELSE IF \E i \in 1..(Len(layer_sizes) - 1) :
                ~LayerNewOk(layer_sizes[1], layer_sizes[i + 1])
    THEN [ok |-> FALSE, layers |-> <<>>]
    ELSE [ok |-> TRUE,
          layers |-> [i \in 1..(Len(layer_sizes) - 1) |->
                        LayerNew(layer_sizes[1], layer_sizes[i + 1], activations[i],
                            UniformWeights(layer_sizes[1], layer_sizes[i + 1], w))]]
\* NeuralNetwork::new: [ok, layers], every weight drawn as w
NetworkNew(layer_sizes, activations, w) ==
    IF Len(layer_sizes) < 2 THEN [ok |-> FALSE, layers |-> <<>>]
    ELSE IF Len(activations) # Len(layer_sizes) - 1 THEN [ok |-> FALSE, layers |-> <<>>]
    ELSE IF \E i \in 1..(Len(layer_sizes) - 1) :
                ~LayerNewOk(layer_sizes[i], layer_sizes[i + 1])
    THEN [ok |-> FALSE, layers |-> <<>>]
    ELSE [ok |-> TRUE,
          layers |-> [i \in 1..(Len(layer_sizes) - 1) |->
                        LayerNew(layer_sizes[i], layer_sizes[i + 1], activations[i],
                            UniformWeights(layer_sizes[i], layer_sizes[i + 1], w))]]

\* NeuralNetwork::forward from layer i on: the first Err ends the pass
RECURSIVE ForwardFrom(_, _, _)
ForwardFrom(layers, i, current_outputs) ==
    IF i > Len(layers) THEN [ok |-> TRUE, out |-> current_outputs]
    ELSE LET r == LayerForward(layers[i], current_outputs)
         IN  IF r.ok THEN ForwardFrom(layers, i + 1, r.out) ELSE Failed

\* NeuralNetwork::forward
NetworkForward(layers, inputs) == ForwardFrom(layers, 1, inputs)

\* NeuralNetwork::get_architecture
GetArchitecture(layers) ==
    <<layers[1].input_size>> \o [i \in 1..Len(layers) |-> layers[i].output_size]

\* the orders in which n parallel workers can finish
WorkerOrders(n) ==
    {p \in [1..n -> 1..n] : \A i, j \in 1..n : i # j => p[i] # p[j]}

\* the first position of `order` whose row satisfies `bad`
RECURSIVE FirstIn(_, _, _)
FirstIn(order, bad, k) ==
    IF k > Len(order) THEN 0
    ELSE IF bad[order[k]] THEN order[k] ELSE FirstIn(order, bad, k + 1)

BatchForwardBad(layers, batch_inputs, order) ==
    IF Len(batch_inputs) = 0 THEN [ok |-> TRUE, out |-> <<>>, err_row |-> 0]
    ELSE LET results == [i \in 1..Len(batch_inputs) |->
                            NetworkForward(layers, batch_inputs[i])]
             bad == [i \in 1..Len(batch_inputs) |-> ~results[i].ok]
         IN  IF \E i \in 1..Len(batch_inputs) : bad[i]
             THEN [ok |-> FALSE, out |-> <<>>, err_row |-> FirstIn(order, bad, 1)]
             ELSE [ok |-> TRUE,
                   out |-> [k \in 1..Len(batch_inputs) |-> results[order[k]].out],
                   err_row |-> 0]
\* NeuralNetwork::batch_forward: [ok, out, err_row].  The rows are evaluated
\* by parallel workers that finish in `order`; the indexed collect() puts
\* result i in slot i whatever the order, and on failure returns the error of
\* a failing row (err_row: the one that failed first).
BatchForward(layers, batch_inputs, order) ==
    IF Len(batch_inputs) = 0 THEN [ok |-> TRUE, out |-> <<>>, err_row |-> 0]
    ELSE LET results == [i \in 1..Len(batch_inputs) |->
                            NetworkForward(layers, batch_inputs[i])]
             bad == [i \in 1..Len(batch_inputs) |-> ~results[i].ok]
         IN  IF \E i \in 1..Len(batch_inputs) : bad[i]
             THEN [ok |-> FALSE, out |-> <<>>, err_row |-> FirstIn(order, bad, 1)]
             ELSE [ok |-> TRUE,
                   out |-> [i \in 1..Len(batch_inputs) |-> results[i].out],
                   err_row |-> 0]

\* ---------------------------------------------------------- CognitiveState
ExperienceKinds == {"learning", "social", "creative", "stress"}

InUnit(x) == 0 <= x /\ x <= Scale

\* CognitiveState::new: Ok exactly when all six arguments are within [0,1]
CognitiveNewOk(at, mc, ps, cr, sa, es) ==
    InUnit(at) /\ InUnit(mc) /\ InUnit(ps) /\ InUnit(cr) /\ InUnit(sa) /\ InUnit(es)

CognitiveNew(at, mc, ps, cr, sa, es) ==
    [attention |-> at, memory_capacity |-> mc, processing_speed |-> ps,
     creativity |-> cr, social_awareness |-> sa, emotional_stability |-> es]

UnitClampBad(x) == x
UnitClamp(x) == Clamp(x, 0, Scale)

\* CognitiveState::update: [ok, cs]
CognitiveUpdate(cs, experience_type, intensity) ==
    LET adjustment == Clamp(intensity, -MaxAdjust, MaxAdjust)
    IN  CASE experience_type = "learning" ->
               [ok |-> TRUE,
                cs |-> [cs EXCEPT
                    !.memory_capacity = UnitClamp(@ + adjustment),
                    !.processing_speed = UnitClamp(@ + Tenths(adjustment, 5))]]
          [] experience_type = "social" ->
               [ok |-> TRUE,
                cs |-> [cs EXCEPT
                    !.social_awareness = UnitClamp(@ + adjustment),
                    !.emotional_stability = UnitClamp(@ + Tenths(adjustment, 3))]]
          [] experience_type = "creative" ->
               [ok |-> TRUE,
                cs |-> [cs EXCEPT
                    !.creativity = UnitClamp(@ + adjustment),
                    !.attention = UnitClamp(@ + Tenths(adjustment, 2))]]
          [] experience_type = "stress" ->
               [ok |-> TRUE,
                cs |-> [cs EXCEPT
                    !.emotional_stability = UnitClamp(@ - Abs(adjustment)),
                    !.attention = UnitClamp(@ - Tenths(Abs(adjustment), 5))]]
          [] OTHER -> [ok |-> FALSE, cs |-> cs]

\* ---------------------------------------------------------------- AgentDNA
\* fitness: Option<Float>, None as the empty sequence and Some(f) as <<f>>
NoFitness == <<>>

\* AgentDNA::new, with `id` what Uuid::new_v4 gave and `now` the clock
DnaNew(genes, id, now) ==
    [id |-> id, genes |-> genes, fitness |-> NoFitness, generation |-> 0,
     parent_ids |-> <<>>, creation_time |-> now, mutations |-> 0,
     metadata |-> {}]

CloneWithNewIdBad(d, id) == DnaNew(d.genes, id, d.creation_time)
\* AgentDNA::clone_with_new_id
CloneWithNewId(d, id) == [d EXCEPT !.id = id]

\* --------------------------------------------------------- EvolutionParams
\* EvolutionParams::new: stores its arguments, checks nothing
ParamsNew(population_size, mutation_rate, crossover_rate, selection_pressure, elitism_count, max_generations, target_fitness, parallel_threads, tournament_size) ==
    [population_size |-> population_size, mutation_rate |-> mutation_rate,
     crossover_rate |-> crossover_rate, selection_pressure |-> selection_pressure,
     elitism_count |-> elitism_count, max_generations |-> max_generations,
     target_fitness |-> target_fitness, parallel_threads |-> parallel_threads,
     tournament_size |-> tournament_size]

\* EvolutionParams::validate
Validate(params) ==
    /\ ~(params.population_size = 0)
    /\ InUnit(params.mutation_rate)
    /\ InUnit(params.crossover_rate)
    /\ InUnit(params.selection_pressure)
    /\ ~(params.elitism_count >= params.population_size)
    /\ ~(params.tournament_size = 0)

\* ----------------------------------------------------------- GeneticEngine
\* GeneticEngine::new: [ok, engine]
EngineNew(params) ==
    [ok |-> Validate(params),
     engine |-> [params |-> params, generation_counter |-> 0,
                 evaluation_counter |-> 0]]

\* the place of worker i in the order the workers run in
PlaceIn(order, i) == CHOOSE k \in 1..Len(order) : order[k] = i

GeneCountOkBad(gene_count) == ~(gene_count > MaxGeneCount)
\* the validation of create_random_population
GeneCountOk(gene_count) == ~(gene_count = 0 \/ gene_count > MaxGeneCount)

\* GeneticEngine::create_random_population: [ok, population].  Worker i draws
\* genes_of[i]; the ids come from Uuid::new_v4 in the order the workers run.
CreateRandomPopulation(e, gene_count, genes_of, order, now, first_id) ==
    IF ~GeneCountOk(gene_count)
    THEN [ok |-> FALSE, population |-> <<>>]
    ELSE [ok |-> TRUE,
          population |-> [i \in 1..e.params.population_size |->
              DnaNew(genes_of[i], first_id + PlaceIn(order, i) - 1, now)]]

\* normal.sample(): mean 0, standard deviation std, z the standard normal draw
Sample(std, z) ==
    IF z >= 0 THEN (std * z) \div Scale ELSE -((std * (-z)) \div Scale)

GeneClampBad(x, bound) == x
\* gene.clamp(-bound, bound)
GeneClamp(x, bound) == Clamp(x, -bound, bound)

\* GeneticEngine::mutate: the DNA after the loop over its genes.  Gene j is
\* perturbed when rolls[j] < mutation_rate, and `agent.mutations += 1` runs
\* inside the loop, once per perturbed gene.
EngineMutate(e, d, rolls, zs) ==
    LET hit == {j \in 1..Len(d.genes) : rolls[j] < e.params.mutation_rate}
    IN  [d EXCEPT
            !.genes = [j \in 1..Len(d.genes) |->
                          IF j \in hit
                          THEN GeneClamp(d.genes[j] + Sample(EngineStd, zs[j]),
                                         EngineBound)
                          ELSE d.genes[j]],
            !.mutations = (@ + Cardinality(hit)) % U32]

\* parallel_mutation: the population returned.  Agent i is selected when
\* agent_rolls[i] < mutation_rate, its gene j is perturbed when
\* gene_rolls[i][j] < 0.1, and its counter moves once, after the loop.
ParallelMutation(pop, mutation_rate, mutation_strength, agent_rolls, gene_rolls, zs) ==
    [i \in 1..Len(pop) |->
        IF agent_rolls[i] < mutation_rate
        THEN [pop[i] EXCEPT
                 !.genes = [j \in 1..Len(pop[i].genes) |->
                               IF gene_rolls[i][j] < GeneRate
                               THEN GeneClamp(pop[i].genes[j]
                                                  + Sample(mutation_strength, zs[i][j]),
                                              BatchBound)
                               ELSE pop[i].genes[j]],
                 !.mutations = (@ + 1) % U32]
        ELSE pop[i]]

AlleleBad(pick, g1, g2) == (g1 + g2) \div 2
\* if thread_rng().gen::<bool>() { *g1 } else { *g2 }
Allele(pick, g1, g2) == IF pick THEN g1 ELSE g2

\* the closure of parallel_crossover for one pair
Offspring(p1, p2, crossover_rate, roll, picks, id, now) ==
    IF roll < crossover_rate
    THEN LET genes == [j \in 1..Min(Len(p1.genes), Len(p2.genes)) |->
                          Allele(picks[j], p1.genes[j], p2.genes[j])]
         IN  [DnaNew(genes, id, now) EXCEPT !.parent_ids = <<p1.id, p2.id>>]
    ELSE CloneWithNewId(p1, id)

ParallelCrossoverBad(parents1, parents2, crossover_rate, rolls, picks, order, now, first_id) ==
    IF Len(parents1) # Len(parents2)
    THEN [ok |-> FALSE, offspring |-> <<>>]
    ELSE [ok |-> TRUE,
          offspring |-> [i \in 1..Len(parents1) |->
              Offspring(parents1[order[i]], parents2[order[i]], crossover_rate,
                        rolls[order[i]], picks[order[i]], first_id + i - 1, now)]]
\* parallel_crossover: [ok, offspring].  Pair i is crossed when
\* rolls[i] < crossover_rate; zip() pairs the genes up to the shorter
\* parent; the ids come from Uuid::new_v4 in the order the workers run.
ParallelCrossover(parents1, parents2, crossover_rate, rolls, picks, order, now, first_id) ==
    IF Len(parents1) # Len(parents2)
    THEN [ok |-> FALSE, offspring |-> <<>>]
    ELSE [ok |-> TRUE,
          offspring |-> [i \in 1..Len(parents1) |->
              Offspring(parents1[i], parents2[i], crossover_rate, rolls[i],
                        picks[i], first_id + PlaceIn(order, i) - 1, now)]]

\* -------------------------------------------------------- IntelligentAgent
NoNetwork == <<>>

\* IntelligentAgent::new
AgentNew(id, genes, behavior_type, cognitive_state) ==
    [id |-> id, genes |-> genes, behavior_type |-> behavior_type,
     cognitive_state |-> cognitive_state, decision_network |-> NoNetwork,
     memory |-> {}, social_connections |-> <<>>,
     experience_points |-> 0, age |-> 0]

AddSocialConnectionBad(a, other_agent_id) ==
    [a EXCEPT !.social_connections = Append(@, other_agent_id)]
\* IntelligentAgent::add_social_connection
AddSocialConnection(a, other_agent_id) ==
    IF ~Contains(a.social_connections, other_agent_id)
    THEN [a EXCEPT !.social_connections = Append(@, other_agent_id)]
    ELSE a

\* IntelligentAgent::gain_experience: [ok, level_up, agent].  The two counters
\* are written before the cognitive update is tried, so an Err leaves them
\* advanced.
GainExperience(a, points, experience_type) ==
    LET xp == (a.experience_points + points) % U64
        age == (a.age + 1) % U64
        intensity == Min(points * 10, MaxAdjust)
        upd == CognitiveUpdate(a.cognitive_state, experience_type, intensity)
        b == [a EXCEPT !.experience_points = xp, !.age = age,
                        !.cognitive_state = upd.cs]
    IN  [ok |-> upd.ok,
         level_up |-> upd.ok /\ xp % LevelStep = 0 /\ points > 0,
         agent |-> b]

\* IntelligentAgent::set_decision_network
SetDecisionNetwork(a, network) == [a EXCEPT !.decision_network = network]

RECURSIVE SumUpTo(_, _)
SumUpTo(v, n) == IF n = 0 THEN 0 ELSE SumUpTo(v, n - 1) + v[n]
\* inputs.iter().sum()
Sum(v) == SumUpTo(v, Len(v))

\* IntelligentAgent::simple_decision_making
SimpleDecisionMaking(a, inputs) ==
    LET cs == a.cognitive_state
        input_avg == IF Len(inputs) # 0 THEN Sum(inputs) \div Len(inputs) ELSE 0
    IN  CASE a.behavior_type = "Explorer" ->
               <<Min(input_avg + cs.creativity, Scale), 0, cs.attention>>
          [] a.behavior_type = "Socializer" ->
               <<Tenths(input_avg, 7), cs.social_awareness, 0>>
          [] a.behavior_type = "Optimizer" ->
               <<cs.processing_speed, 0, Scale - cs.emotional_stability>>
          [] a.behavior_type = "Creator" ->
               <<cs.creativity, Tenths(input_avg, 5), 0>>
          [] a.behavior_type = "Analyzer" ->
               <<Tenths(cs.processing_speed, 8), 0, 200>>

DecisionInputsBad(a, situation_inputs) ==
    situation_inputs
    \o <<a.cognitive_state.attention, a.cognitive_state.memory_capacity,
         a.cognitive_state.processing_speed, a.cognitive_state.creativity,
         a.cognitive_state.social_awareness, a.cognitive_state.emotional_stability>>
    \o a.genes
\* decision_inputs of make_decision: situation ++ cognitive state ++ genes.take(4)
DecisionInputs(a, situation_inputs) ==
    situation_inputs
    \o <<a.cognitive_state.attention, a.cognitive_state.memory_capacity,
         a.cognitive_state.processing_speed, a.cognitive_state.creativity,
         a.cognitive_state.social_awareness, a.cognitive_state.emotional_stability>>
    \o SubSeq(a.genes, 1, Min(GeneContext, Len(a.genes)))

\* IntelligentAgent::make_decision: [ok, out]
MakeDecision(a, situation_inputs) ==
    IF a.decision_network # NoNetwork
    THEN NetworkForward(a.decision_network, DecisionInputs(a, situation_inputs))
    ELSE [ok |-> TRUE, out |-> SimpleDecisionMaking(a, situation_inputs)]

\* HashMap<String, Float> as a set of <<key, value>> pairs, one per key
MemKeys(m) == {e[1] : e \in m}
MemInsert(m, key, value) == {e \in m : e[1] # key} \cup {<<key, value>>}
MemRemove(m, key) == {e \in m : e[1] # key}

\* (memory_capacity * 100.0) as usize
MemoryLimit(cs) == (cs.memory_capacity * 100) \div Scale

StoreMemoryBad(a, key, value, first_key) ==
    [a EXCEPT !.memory = MemInsert(@, key, value)]
\* IntelligentAgent::store_memory.  first_key is what self.memory.keys().next()
\* yields: some stored key, whichever the hash order puts first.
StoreMemory(a, key, value, first_key) ==
    LET m1 == IF Cardinality(a.memory) >= MemoryLimit(a.cognitive_state)
                 /\ a.memory # {}
              THEN MemRemove(a.memory, first_key)
              ELSE a.memory
    IN  [a EXCEPT !.memory = MemInsert(m1, key, value)]

\* ------------------------------------------------------------ AgentSociety
Ids == {"a", "b", "c"}
RandomFactors == {500, 900}

\* the cognitive state the society's agents are constructed with
SocietyCognitive(sa) == CognitiveNew(500, 500, 500, 500, sa, 950)

\* the agents handed to add_agent, each at most once: two freshly constructed
\* ones, one under an id already taken on which add_social_connection("c")
\* was called twice, and one that gained experience up to the top of the u64
\* range before it was added
SocietyAgents ==
    { AgentNew("a", <<100>>, "Explorer", SocietyCognitive(1000)),
      AddSocialConnection(
          AddSocialConnection(
              AgentNew("a", <<200>>, "Explorer", SocietyCognitive(1000)), "c"), "c"),
      AgentNew("c", <<300>>, "Explorer", SocietyCognitive(500)),
      GainExperience(AgentNew("b", <<400>>, "Explorer", SocietyCognitive(900)),
                     U64 - SocialReward, "social").agent }

Added(a) == \E i \in 1..Len(agents) : agents[i].genes = a.genes

\* AgentSociety::new
SocietyInit ==
    /\ agents = <<>>
    /\ interaction_history = <<>>
    /\ pc = "idle"
    /\ num_interactions = 0
    /\ trial = 0
    /\ agent1_idx = 1
    /\ agent2_idx = 1
    /\ interactions_created = 0
    /\ sim_ret = 0
    /\ history0 = <<>>

\* AgentSociety::add_agent
AddAgent(a) ==
    /\ UNCHANGED outsideSociety
    /\ pc = "idle"
    /\ Len(agents) < MaxAgents
    /\ agents' = Append(agents, a)
    /\ UNCHANGED <<interaction_history, pc, num_interactions, trial, agent1_idx,
                   agent2_idx, interactions_created, sim_ret, history0>>

\* simulate_interactions, entry: the early return for fewer than 2 agents
SimulateEnter(n) ==
    /\ UNCHANGED outsideSociety
    /\ pc = "idle"
    /\ Len(interaction_history) + n <= MaxLog
    /\ num_interactions' = n
    /\ history0' = interaction_history
    /\ trial' = 0
    /\ interactions_created' = 0
    /\ IF Len(agents) < MinSociety
       THEN pc' = "done" /\ sim_ret' = 0
       ELSE pc' = "select" /\ UNCHANGED sim_ret
    /\ UNCHANGED <<agents, interaction_history, agent1_idx, agent2_idx>>

\* the head of `for _ in 0..num_interactions` and the two first draws
SimulateSelect(i1, i2) ==
    /\ UNCHANGED outsideSociety
    /\ pc = "select"
    /\ trial < num_interactions
    /\ agent1_idx' = i1
    /\ agent2_idx' = i2
    /\ pc' = "resample"
    /\ UNCHANGED <<agents, interaction_history, num_interactions, trial,
                   interactions_created, sim_ret, history0>>

NeedsResampleBad(i1, i2) == FALSE
NeedsResampleAlways(i1, i2) == TRUE
\* the condition of `while agent2_idx == agent1_idx`
NeedsResample(i1, i2) == i2 = i1

\* one iteration of the resampling loop
SimulateResample(i2) ==
    /\ UNCHANGED outsideSociety
    /\ pc = "resample"
    /\ NeedsResample(agent1_idx, agent2_idx)
    /\ agent2_idx' = i2
    /\ UNCHANGED <<agents, interaction_history, pc, num_interactions, trial,
                   agent1_idx, interactions_created, sim_ret, history0>>

\* the resampling loop is left
SimulateSelected ==
    /\ UNCHANGED outsideSociety
    /\ pc = "resample"
    /\ ~NeedsResample(agent1_idx, agent2_idx)
    /\ pc' = "interact"
    /\ UNCHANGED <<agents, interaction_history, num_interactions, trial,
                   agent1_idx, agent2_idx, interactions_created, sim_ret, history0>>

InteractionStrengthBad(s1, s2, r) == (s1 + s2) * r * 2
\* (agent1_social + agent2_social) / 2.0 * rng.gen(), in units of 1/(2*Scale^2)
InteractionStrength(s1, s2, r) == (s1 + s2) * r

StrongBad(strength) == strength >= Scale * Scale
\* interaction_strength > 0.5
Strong(strength) == strength > Scale * Scale

ConnectBad(ags, i1, i2) ==
    LET id2 == ags[i2].id
        s1 == [ags EXCEPT ![i1] = AddSocialConnection(@, id2)]
        s3 == [s1 EXCEPT ![i1] = GainExperience(@, SocialReward, "social").agent]
    IN  [s3 EXCEPT ![i2] = GainExperience(@, SocialReward, "social").agent]
\* the four calls under `if interaction_strength > 0.5`, in the code's order
Connect(ags, i1, i2) ==
    LET id1 == ags[i1].id
        id2 == ags[i2].id
        s1 == [ags EXCEPT ![i1] = AddSocialConnection(@, id2)]
        s2 == [s1 EXCEPT ![i2] = AddSocialConnection(@, id1)]
        s3 == [s2 EXCEPT ![i1] = GainExperience(@, SocialReward, "social").agent]
    IN  [s3 EXCEPT ![i2] = GainExperience(@, SocialReward, "social").agent]

RecordBad(history, rec) == IF Strong(rec[3]) THEN Append(history, rec) ELSE history
\* self.interaction_history.push(..), outside the `if`
Record(history, rec) == Append(history, rec)

\* the rest of one trial: strength, connections, experience, log record
SimulateInteract(r) ==
    /\ UNCHANGED outsideSociety
    /\ pc = "interact"
    /\ LET a1 == agents[agent1_idx]
           a2 == agents[agent2_idx]
           strength == InteractionStrength(a1.cognitive_state.social_awareness,
                                           a2.cognitive_state.social_awareness, r)
       IN  /\ IF Strong(strength)
              THEN /\ agents' = Connect(agents, agent1_idx, agent2_idx)
                   /\ interactions_created' = interactions_created + 1
              ELSE UNCHANGED <<agents, interactions_created>>
           /\ interaction_history' =
                  Record(interaction_history, <<a1.id, a2.id, strength>>)
    /\ trial' = trial + 1
    /\ agent1_idx' = 1
    /\ agent2_idx' = 1
    /\ pc' = "select"
    /\ UNCHANGED <<num_interactions, sim_ret, history0>>

\* the loop is over: Ok(interactions_created)
SimulateFinish ==
    /\ UNCHANGED outsideSociety
    /\ pc = "select"
    /\ trial >= num_interactions
    /\ sim_ret' = interactions_created
    /\ pc' = "done"
    /\ UNCHANGED <<agents, interaction_history, num_interactions, trial,
                   agent1_idx, agent2_idx, interactions_created, history0>>

\* the caller has the result
SimulateReturn ==
    /\ UNCHANGED outsideSociety
    /\ pc = "done"
    /\ pc' = "idle"
    /\ num_interactions' = 0
    /\ trial' = 0
    /\ agent1_idx' = 1
    /\ agent2_idx' = 1
    /\ interactions_created' = 0
    /\ sim_ret' = 0
    /\ history0' = <<>>
    /\ UNCHANGED <<agents, interaction_history>>

\* decision[i] of every decision that has an i-th element, summed
RECURSIVE ColumnSum(_, _, _)
ColumnSum(all_decisions, i, n) ==
    IF n = 0 THEN 0
    ELSE ColumnSum(all_decisions, i, n - 1)
         + (IF i <= Len(all_decisions[n]) THEN all_decisions[n][i] ELSE 0)

\* AgentSociety::collective_decision: [outcome, out].  `collect()` into a
\* Result stops at the first Err; `collective_decision[i] += value` indexes a
\* vector of the first decision's length, so a longer decision panics (index
\* out of bounds) and a shorter one contributes nothing to the tail.
CollectiveDecision(ags, situation) ==
    IF Len(ags) = 0
    THEN [outcome |-> "ok", out |-> [i \in 1..FallbackLen |-> 0]]
    ELSE LET decisions == [k \in 1..Len(ags) |-> MakeDecision(ags[k], situation)]
         IN  IF \E k \in 1..Len(ags) : ~decisions[k].ok
             THEN [outcome |-> "err", out |-> <<>>]
             ELSE LET all_decisions == [k \in 1..Len(ags) |-> decisions[k].out]
                      decision_size == Len(all_decisions[1])
                  IN  IF \E k \in 1..Len(ags) : Len(all_decisions[k]) > decision_size
                      THEN [outcome |-> "panic", out |-> <<>>]
                      ELSE [outcome |-> "ok",
                            out |-> [i \in 1..decision_size |->
                                ColumnSum(all_decisions, i, Len(ags)) \div Len(ags)]]

\* ensemble_predict: [outcome, out].  The networks run in sequence and the
\* first Err returns; `averaged[i] += value` indexes a vector of the first
\* prediction's length, so a longer prediction panics (index out of bounds)
\* and a shorter one contributes nothing to the tail.
EnsemblePredict(networks, inputs) ==
    IF Len(networks) = 0
    THEN [outcome |-> "err", out |-> <<>>]
    ELSE LET predictions == [k \in 1..Len(networks) |->
                                NetworkForward(networks[k], inputs)]
         IN  IF \E k \in 1..Len(networks) : ~predictions[k].ok
             THEN [outcome |-> "err", out |-> <<>>]
             ELSE LET all_predictions == [k \in 1..Len(networks) |-> predictions[k].out]
                      output_size == Len(all_predictions[1])
                  IN  IF \E k \in 1..Len(networks) :
                             Len(all_predictions[k]) > output_size
                      THEN [outcome |-> "panic", out |-> <<>>]
                      ELSE [outcome |-> "ok",
                            out |-> [i \in 1..output_size |->
                                ColumnSum(all_predictions, i, Len(networks))
                                    \div Len(networks)]]

\* --------------------------------------------- calls on a free-standing agent
NoAgent == [absent |-> TRUE]
NoLayer == [absent |-> TRUE]
NoNet == [absent |-> TRUE]
NoEngine == [absent |-> TRUE]
NoCall == [op |-> "none"]

HasAgent == "absent" \notin DOMAIN agent
HasLayer == "absent" \notin DOMAIN layer
HasNetwork == "absent" \notin DOMAIN net
HasEngine == "absent" \notin DOMAIN engine

\* CognitiveState::new(args) followed, when it is Ok, by IntelligentAgent::new
CreateAgent(id, genes, behavior_type, args) ==
    /\ ~HasAgent
    /\ LET ok == CognitiveNewOk(args[1], args[2], args[3], args[4], args[5], args[6])
       IN  /\ agent' = IF ok
                       THEN AgentNew(id, genes, behavior_type,
                                CognitiveNew(args[1], args[2], args[3],
                                             args[4], args[5], args[6]))
                       ELSE agent
           /\ call' = [op |-> "new", args |-> args, ok |-> ok]
    /\ ncalls' = 0
    /\ UNCHANGED outsideAgent

\* agent.cognitive_state.update(experience_type, intensity)
UpdateCognitive(experience_type, intensity) ==
    /\ HasAgent
    /\ ncalls < MaxCalls
    /\ LET r == CognitiveUpdate(agent.cognitive_state, experience_type, intensity)
       IN  /\ agent' = [agent EXCEPT !.cognitive_state = r.cs]
           /\ call' = [op |-> "update", experience_type |-> experience_type,
                       intensity |-> intensity, ok |-> r.ok]
    /\ ncalls' = ncalls + 1
    /\ UNCHANGED outsideAgent

\* agent.gain_experience(points, experience_type)
AgentGainExperience(points, experience_type) ==
    /\ HasAgent
    /\ ncalls < MaxCalls
    /\ LET r == GainExperience(agent, points, experience_type)
       IN  /\ agent' = r.agent
           /\ call' = [op |-> "gain_experience", points |-> points,
                       experience_type |-> experience_type, ok |-> r.ok,
                       level_up |-> r.level_up]
    /\ ncalls' = ncalls + 1
    /\ UNCHANGED outsideAgent

\* agent.store_memory(key, value)
AgentStoreMemory(key, value, first_key) ==
    /\ HasAgent
    /\ ncalls < MaxCalls
    /\ agent.memory # {} => first_key \in MemKeys(agent.memory)
    /\ agent' = StoreMemory(agent, key, value, first_key)
    /\ call' = [op |-> "store_memory", key |-> key, value |-> value,
                before |-> agent.memory]
    /\ ncalls' = ncalls + 1
    /\ UNCHANGED outsideAgent

\* agent.set_decision_network(network)
AgentSetDecisionNetwork(network) ==
    /\ HasAgent
    /\ agent' = SetDecisionNetwork(agent, network)
    /\ call' = [op |-> "set_decision_network"]
    /\ UNCHANGED <<ncalls, outsideAgent>>

\* agent.make_decision(situation): takes &self
AgentMakeDecision(situation) ==
    /\ HasAgent
    /\ LET r == MakeDecision(agent, situation)
       IN  call' = [op |-> "make_decision", situation |-> situation,
                    inputs |-> DecisionInputs(agent, situation),
                    ok |-> r.ok, out |-> r.out]
    /\ UNCHANGED <<agentVars, outsideAgent>>

\* society.collective_decision(situation): takes &self
SocietyCollectiveDecision(situation) ==
    /\ pc = "idle"
    /\ LET r == CollectiveDecision(agents, situation)
       IN  call' = [op |-> "collective_decision", situation |-> situation,
                    outcome |-> r.outcome, out |-> r.out]
    /\ UNCHANGED <<societyVars, agentVars, neuralVars, geneticVars>>

\* ------------------------------------------- calls on a free-standing layer
\* NeuralLayer::new(input_size, output_size, activation)
CreateLayer(input_size, output_size, activation, weights) ==
    /\ ~HasLayer
    /\ LET ok == LayerNewOk(input_size, output_size)
       IN  /\ layer' = IF ok
                       THEN LayerNew(input_size, output_size, activation, weights)
                       ELSE layer
           /\ call' = [op |-> "layer_new", input_size |-> input_size,
                       output_size |-> output_size, ok |-> ok]
    /\ UNCHANGED outsideLayer

\* layer.forward(inputs): takes &self
LayerForwardCall(inputs) ==
    /\ HasLayer
    /\ LET r == LayerForward(layer, inputs)
       IN  call' = [op |-> "layer_forward", inputs |-> inputs,
                    ok |-> r.ok, out |-> r.out]
    /\ UNCHANGED <<layer, outsideLayer>>

\* layer.update_weights(new_weights)
LayerUpdateWeightsCall(new_weights) ==
    /\ HasLayer
    /\ LET r == LayerUpdateWeights(layer, new_weights)
       IN  /\ layer' = r.layer
           /\ call' = [op |-> "update_weights", new_weights |-> new_weights,
                       ok |-> r.ok]
    /\ UNCHANGED outsideLayer

\* ----------------------------------------- calls on a free-standing network
\* NeuralNetwork::new(layer_sizes, activations)
CreateNetwork(layer_sizes, activations, w) ==
    /\ ~HasNetwork
    /\ LET r == NetworkNew(layer_sizes, activations, w)
       IN  /\ net' = IF r.ok
                     THEN [layers |-> r.layers, layer_count |-> Len(r.layers)]
                     ELSE net
           /\ call' = [op |-> "network_new", layer_sizes |-> layer_sizes,
                       activations |-> activations, ok |-> r.ok]
    /\ UNCHANGED outsideNetwork

\* network.forward(inputs): takes &self
NetworkForwardCall(inputs) ==
    /\ HasNetwork
    /\ LET r == NetworkForward(net.layers, inputs)
       IN  call' = [op |-> "network_forward", inputs |-> inputs,
                    ok |-> r.ok, out |-> r.out]
    /\ UNCHANGED <<net, outsideNetwork>>

\* network.get_architecture(): takes &self
GetArchitectureCall ==
    /\ HasNetwork
    /\ call' = [op |-> "get_architecture", out |-> GetArchitecture(net.layers)]
    /\ UNCHANGED <<net, outsideNetwork>>

\* network.batch_forward(batch_inputs): takes &self
BatchForwardCall(batch_inputs, order) ==
    /\ HasNetwork
    /\ LET r == BatchForward(net.layers, batch_inputs, order)
       IN  call' = [op |-> "batch_forward", batch_inputs |-> batch_inputs,
                    order |-> order, ok |-> r.ok, out |-> r.out,
                    err_row |-> r.err_row]
    /\ UNCHANGED <<net, outsideNetwork>>

\* ensemble_predict(networks, inputs)
EnsemblePredictCall(networks, inputs) ==
    /\ LET r == EnsemblePredict(networks, inputs)
       IN  call' = [op |-> "ensemble_predict", networks |-> networks,
                    inputs |-> inputs, outcome |-> r.outcome, out |-> r.out]
    /\ UNCHANGED <<net, outsideNetwork>>

\* ------------------------------------------------- calls on the genetic side
\* GeneticEngine::new(params)
CreateEngine(params) ==
    /\ ~HasEngine
    /\ LET r == EngineNew(params)
       IN  /\ engine' = IF r.ok THEN r.engine ELSE engine
           /\ call' = [op |-> "engine_new", params |-> params, ok |-> r.ok]
    /\ UNCHANGED <<population, next_id, ops, outsideGenetic>>

\* engine.create_random_population(gene_count): takes &self
CreatePopulationCall(gene_count, genes_of, order, now) ==
    /\ HasEngine
    /\ next_id + engine.params.population_size <= MaxIds + 1
    /\ LET r == CreateRandomPopulation(engine, gene_count, genes_of, order, now,
                                       next_id)
       IN  /\ population' = IF r.ok THEN r.population ELSE population
           /\ next_id' = next_id + Len(r.population)
           /\ ops' = IF r.ok THEN 0 ELSE ops
           /\ call' = [op |-> "create_random_population",
                       gene_count |-> gene_count, order |-> order,
                       ok |-> r.ok, out |-> r.population]
    /\ UNCHANGED <<engine, outsideGenetic>>

\* the caller builds a Vec<AgentDNA> of its own: AgentDNA::new and the
\* #[pyo3(set)] setters of its fields
HoldPopulation(pop) ==
    /\ population = <<>>
    /\ ops = 0
    /\ pop # <<>>
    /\ population' = pop
    /\ call' = [op |-> "hold"]
    /\ UNCHANGED <<engine, next_id, ops, outsideGenetic>>

\* engine.mutate(&mut population[i])
EngineMutateCall(i, rolls, zs) ==
    /\ HasEngine
    /\ ops < MaxCalls
    /\ i \in 1..Len(population)
    /\ population' = [population EXCEPT ![i] = EngineMutate(engine, @, rolls, zs)]
    /\ call' = [op |-> "mutate", index |-> i, before |-> population[i],
                rolls |-> rolls]
    /\ ops' = ops + 1
    /\ UNCHANGED <<engine, next_id, outsideGenetic>>

\* population = parallel_mutation(population, mutation_rate, mutation_strength)
ParallelMutationCall(mutation_rate, mutation_strength, agent_rolls, gene_rolls, zs) ==
    /\ ops < MaxCalls
    /\ population # <<>>
    /\ population' = ParallelMutation(population, mutation_rate, mutation_strength,
                                      agent_rolls, gene_rolls, zs)
    /\ call' = [op |-> "parallel_mutation", before |-> population,
                mutation_rate |-> mutation_rate, agent_rolls |-> agent_rolls,
                gene_rolls |-> gene_rolls]
    /\ ops' = ops + 1
    /\ UNCHANGED <<engine, next_id, outsideGenetic>>

\* population = parallel_crossover(parents1, parents2, crossover_rate)
ParallelCrossoverCall(parents1, parents2, crossover_rate, rolls, picks, order, now) ==
    /\ next_id + Len(parents1) <= MaxIds + 1
    /\ LET r == ParallelCrossover(parents1, parents2, crossover_rate, rolls, picks,
                                  order, now, next_id)
       IN  /\ population' = IF r.ok THEN r.offspring ELSE population
           /\ next_id' = next_id + Len(r.offspring)
           /\ call' = [op |-> "parallel_crossover", parents1 |-> parents1,
                       parents2 |-> parents2, crossover_rate |-> crossover_rate,
                       rolls |-> rolls, order |-> order, ok |-> r.ok,
                       out |-> r.offspring]
    /\ ops' = 0
    /\ UNCHANGED <<engine, outsideGenetic>>

\* ---------------------------------------------------------- specifications
Init ==
    /\ SocietyInit
    /\ agent = NoAgent
    /\ ncalls = 0
    /\ layer = NoLayer
    /\ net = NoNet
    /\ engine = NoEngine
    /\ population = <<>>
    /\ next_id = 1
    /\ ops = 0
    /\ call = NoCall

\* the society: add_agent and simulate_interactions
Next ==
    \/ \E a \in {p \in SocietyAgents : ~Added(p)} : AddAgent(a)
    \/ \E n \in 0..MaxLog : SimulateEnter(n)
    \/ \E i1, i2 \in 1..Len(agents) : SimulateSelect(i1, i2)
    \/ \E i2 \in 1..Len(agents) : SimulateResample(i2)
    \/ SimulateSelected
    \/ \E r \in RandomFactors : SimulateInteract(r)
    \/ SimulateFinish
    \/ SimulateReturn

Spec == Init /\ [][Next]_vars

\* a society of two agents of social_awareness 0.5 and one of 1.0, and
\* random factors up to just below 1
AwarenessAgents ==
    { AgentNew("a", <<100>>, "Explorer", SocietyCognitive(500)),
      AgentNew("b", <<400>>, "Explorer", SocietyCognitive(500)),
      AgentNew("c", <<300>>, "Explorer", SocietyCognitive(1000)) }
AwarenessFactors == {0, 999}

NextAwareness ==
    \/ \E a \in {p \in AwarenessAgents : ~Added(p)} : AddAgent(a)
    \/ \E n \in 0..MaxLog : SimulateEnter(n)
    \/ \E i1, i2 \in 1..Len(agents) : SimulateSelect(i1, i2)
    \/ \E i2 \in 1..Len(agents) : SimulateResample(i2)
    \/ SimulateSelected
    \/ \E r \in AwarenessFactors : SimulateInteract(r)
    \/ SimulateFinish
    \/ SimulateReturn

SpecAwareness == Init /\ [][NextAwareness]_vars

\* a draw of gen_range(0..len) that differs from agent1_idx
ResampleOther ==
    \E i2 \in 1..Len(agents) : i2 # agent1_idx /\ SimulateResample(i2)

\* that society with a call that runs on once entered, and a generator that
\* does not repeat agent1_idx for ever
SpecTermination ==
    /\ SpecAwareness
    /\ WF_vars(\E i1, i2 \in 1..Len(agents) : SimulateSelect(i1, i2))
    /\ WF_vars(ResampleOther)
    /\ WF_vars(SimulateSelected)
    /\ WF_vars(\E r \in AwarenessFactors : SimulateInteract(r))
    /\ WF_vars(SimulateFinish)

\* gain_experience alone: the experience counter and the level-up report
ExperiencePoints == {0, 1, 999, 1000, U64 - 1000}

NextExperience ==
    \/ CreateAgent("a", <<>>, "Explorer", <<500, 500, 500, 500, 500, 500>>)
    \/ \E points \in ExperiencePoints, kind \in ExperienceKinds \cup {"unknown"} :
           AgentGainExperience(points, kind)

SpecExperience == Init /\ [][NextExperience]_vars

\* the cognitive state: constructions, update and gain_experience
UnitArgs == {<<v, v, v, v, v, v>> : v \in {0, 40, 960, 1000}}
BadArgs == {[<<500, 500, 500, 500, 500, 500>> EXCEPT ![i] = x] :
               i \in 1..6, x \in {-1, 1001}}
Intensities == {-1000, -100, -50, 50, 100, 1000}

NextCognition ==
    \/ \E args \in UnitArgs \cup BadArgs : CreateAgent("a", <<>>, "Explorer", args)
    \/ \E kind \in ExperienceKinds \cup {"unknown"}, intensity \in Intensities :
           UpdateCognitive(kind, intensity)
    \/ \E points \in {0, 10}, kind \in ExperienceKinds \cup {"unknown"} :
           AgentGainExperience(points, kind)

SpecCognition == Init /\ [][NextCognition]_vars

\* the memory store: store_memory on agents of small capacity, whose capacity
\* update and gain_experience move by 0.01
MemoryKeys == {"k1", "k2", "k3"}
MemoryValues == {1, 2}

NextMemory ==
    \/ \E mc \in {0, 10, 20} :
           CreateAgent("a", <<>>, "Explorer", <<500, mc, 500, 500, 500, 500>>)
    \/ \E key \in MemoryKeys, value \in MemoryValues, first_key \in MemoryKeys :
           AgentStoreMemory(key, value, first_key)
    \/ \E intensity \in {-10, 10} : UpdateCognitive("learning", intensity)
    \/ AgentGainExperience(1, "learning")

SpecMemory == Init /\ [][NextMemory]_vars

\* make_decision: every behaviour, 0, 2 and 5 genes, no network or a network
\* of first-layer input size 8 or 10
BehaviorTypes == {"Explorer", "Socializer", "Optimizer", "Creator", "Analyzer"}
GeneVectors == {<<>>, <<100, -200>>, <<100, -200, 300, 400, 500>>}
Situations == {<<>>, <<600, 200>>, <<1000, 0, 500, 500>>}
DecisionNetworks ==
    { NetworkNew(<<8, 3>>, <<"ReLU">>, 1000).layers,
      NetworkNew(<<10, 2, 3>>, <<"LeakyReLU", "ReLU">>, 1000).layers,
      NetworkNew(<<10, 4>>, <<"ReLU">>, -1000).layers }

NextDecision ==
    \/ \E behavior_type \in BehaviorTypes, genes \in GeneVectors :
           CreateAgent("a", genes, behavior_type, <<300, 400, 500, 600, 700, 800>>)
    \/ \E network \in DecisionNetworks : AgentSetDecisionNetwork(network)
    \/ \E situation \in Situations : AgentMakeDecision(situation)

SpecDecision == Init /\ [][NextDecision]_vars

\* collective_decision over societies of agents whose decisions have 3, 3, 4
\* and 2 elements
Thinker(id, behavior_type, layer_sizes) ==
    LET a == AgentNew(id, <<100, -200>>, behavior_type,
                      CognitiveNew(300, 400, 500, 600, 700, 800))
    IN  IF Len(layer_sizes) = 0 THEN a
        ELSE SetDecisionNetwork(a,
                 NetworkNew(layer_sizes, [i \in 1..(Len(layer_sizes) - 1) |-> "ReLU"],
                            1000).layers)
CollectiveAgents ==
    { Thinker("a", "Explorer", <<>>),
      Thinker("b", "Socializer", <<10, 3>>),
      Thinker("c", "Optimizer", <<10, 4>>),
      Thinker("d", "Analyzer", <<10, 2>>) }
AddedId(a) == \E i \in 1..Len(agents) : agents[i].id = a.id

NextCollective ==
    \/ \E a \in {p \in CollectiveAgents : ~AddedId(p)} : AddAgent(a)
    \/ \E situation \in {<<>>, <<600, 200>>} : SocietyCollectiveDecision(situation)

SpecCollective == Init /\ [][NextCollective]_vars

\* one layer: construction, forward, update_weights
LayerSizes == (0..MaxDim) \cup {MaxLayerSize + 1}
WeightValues == {-1000, 500, 1000}
Matrices(input_size, output_size) ==
    IF ~LayerNewOk(input_size, output_size)
    THEN {<<>>}
    ELSE {UniformWeights(input_size, output_size, w) : w \in WeightValues}
InputValues == {0, 500}
InputVectors == UNION {[1..n -> InputValues] : n \in 0..(MaxDim + 1)}
Rows == UNION {[1..n -> {1000}] : n \in 0..(MaxDim + 1)}
NewWeights == UNION {[1..n -> Rows] : n \in 0..MaxDim}

NextLayer ==
    \/ \E input_size \in LayerSizes, output_size \in LayerSizes,
          activation \in ActivationTypes :
           \E weights \in Matrices(input_size, output_size) :
               CreateLayer(input_size, output_size, activation, weights)
    \/ \E inputs \in InputVectors : LayerForwardCall(inputs)
    \/ \E new_weights \in NewWeights : LayerUpdateWeightsCall(new_weights)

SpecLayer == Init /\ [][NextLayer]_vars

\* one network: construction, forward, get_architecture, batch_forward
NetworkShapes ==
    {<<>>, <<2>>, <<0, 1>>, <<2, MaxLayerSize + 1>>}
        \cup {<<a, b>> : a, b \in 1..MaxDim}
        \cup {<<a, b, c>> : a \in 1..MaxDim, b \in 1..2, c \in 1..2}
ActivationLists(n) == {[i \in 1..n |-> t] : t \in ActivationTypes}
NetworkWeights == {-500, 1000}
BatchRow(n, v) == [i \in 1..n |-> v * i]
RowLens == 1..(MaxDim + 1)
Batches ==
    {<<>>}
        \cup {<<BatchRow(n, v)>> : n \in RowLens, v \in {300, 500}}
        \cup {<<BatchRow(n, 500), BatchRow(m, 300)>> : n, m \in RowLens}
        \cup {<<BatchRow(n, 500), BatchRow(n, 300), BatchRow(n, 200)>> :
                  n \in RowLens}
        \cup {<<BatchRow(n, 500), BatchRow(n, 300), BatchRow(MaxDim + 1, 200)>> :
                  n \in RowLens}

NextNetwork ==
    \/ \E layer_sizes \in NetworkShapes, w \in NetworkWeights :
           \E activations \in ActivationLists(Max(Len(layer_sizes) - 1, 0))
                                  \cup ActivationLists(Len(layer_sizes)) :
               CreateNetwork(layer_sizes, activations, w)
    \/ \E inputs \in InputVectors : NetworkForwardCall(inputs)
    \/ GetArchitectureCall
    \/ \E batch_inputs \in Batches :
           \E order \in WorkerOrders(Len(batch_inputs)) :
               BatchForwardCall(batch_inputs, order)

SpecNetwork == Init /\ [][NextNetwork]_vars

\* ensemble_predict over networks of output sizes 1, 1, 2 and input size 2 or 1
EnsembleNetworks ==
    { NetworkNew(<<2, 1>>, <<"ReLU">>, 1000).layers,
      NetworkNew(<<2, 2, 1>>, <<"LeakyReLU", "ReLU">>, -500).layers,
      NetworkNew(<<2, 2>>, <<"ReLU">>, 1000).layers,
      NetworkNew(<<1, 1>>, <<"ReLU">>, 1000).layers }
Ensembles == UNION {[1..n -> EnsembleNetworks] : n \in 0..3}

NextEnsemble ==
    \E networks \in Ensembles, inputs \in {<<500>>, <<500, 1000>>, <<0, 0, 0>>} :
        EnsemblePredictCall(networks, inputs)

SpecEnsemble == Init /\ [][NextEnsemble]_vars

\* the clock AgentDNA::new reads
Times == {1, 2}

\* an engine and create_random_population
PopulationParams ==
    {ParamsNew(n, 100, 800, 700, 0, 1000, NoFitness, <<>>, 3) : n \in 0..MaxPop}
        \cup {ParamsNew(1, 100, 800, 700, 1, 1000, NoFitness, <<>>, 3),
              ParamsNew(1, 1500, 800, 700, 0, 1000, NoFitness, <<>>, 3),
              ParamsNew(1, 100, -100, 700, 0, 1000, NoFitness, <<>>, 3),
              ParamsNew(1, 100, 800, 1001, 0, 1000, NoFitness, <<>>, 3),
              ParamsNew(1, 100, 800, 700, 0, 1000, NoFitness, <<>>, 0)}
\* rng.gen_range(-1.0..1.0)
GeneDraws == {-1000, 999}
GeneCounts == {0, 1, 2, MaxGeneCount, MaxGeneCount + 1}
\* what the n workers draw: every vector for 1 or 2 genes; for the largest
\* accepted count one worker drawing 0 throughout
GenesOf(n, gene_count) ==
    IF ~GeneCountOk(gene_count) THEN {[i \in 1..n |-> <<>>]}
    ELSE IF gene_count <= 2 THEN [1..n -> [1..gene_count -> GeneDraws]]
    ELSE IF n = 1 THEN {<<[j \in 1..gene_count |-> 0]>>}
    ELSE {}

NextPopulation ==
    \/ \E params \in PopulationParams : CreateEngine(params)
    \/ \E gene_count \in GeneCounts, now \in Times :
           \E genes_of \in GenesOf(IF HasEngine THEN engine.params.population_size
                                    ELSE 0, gene_count),
              order \in WorkerOrders(IF HasEngine THEN engine.params.population_size
                                     ELSE 0) :
               CreatePopulationCall(gene_count, genes_of, order, now)

SpecPopulation == Init /\ [][NextPopulation]_vars

\* the DNA a caller can hold: fresh from AgentDNA::new or with fields set
Dna1 ==
    [id |-> 101, genes |-> <<1950, -1950>>, fitness |-> <<500>>, generation |-> 3,
     parent_ids |-> <<90, 91>>, creation_time |-> 1, mutations |-> U32 - 1,
     metadata |-> {<<"tag", "x">>}]
Dna2 == DnaNew(<<0>>, 102, 1)
Dna3 == DnaNew(<<3000, 100>>, 103, 2)
Dna4 == DnaNew(<<>>, 104, 1)
Dna5 == DnaNew(<<4950>>, 105, 1)
Rolls == {0, 500}
Rates == {0, 500, 1000}
ZDraws == {-1000, 1000}

\* engine-scoped mutate on the DNA of a held population
MutateParams == {ParamsNew(1, r, 800, 700, 0, 1000, NoFitness, <<>>, 3) : r \in Rates}

NextMutate ==
    \/ \E params \in MutateParams : CreateEngine(params)
    \/ \E pop \in {<<Dna1, Dna2>>, <<Dna3, Dna4>>} : HoldPopulation(pop)
    \/ \E i \in 1..Len(population) :
           \E rolls \in [1..Len(population[i].genes) -> Rolls],
              zs \in [1..Len(population[i].genes) -> ZDraws] :
               EngineMutateCall(i, rolls, zs)

SpecMutate == Init /\ [][NextMutate]_vars

\* parallel_mutation on a held population
Strengths == {3000}
PerGene(pop, S) ==
    {f \in [1..Len(pop) -> UNION {[1..n -> S] : n \in 0..2}] :
        \A i \in 1..Len(pop) : Len(f[i]) = Len(pop[i].genes)}

NextBatchMutation ==
    \/ \E pop \in {<<Dna2>>, <<Dna4>>, <<Dna5, Dna2>>, <<Dna1>>} : HoldPopulation(pop)
    \/ \E mutation_rate \in Rates, mutation_strength \in Strengths :
           \E agent_rolls \in [1..Len(population) -> Rolls],
              gene_rolls \in PerGene(population, Rolls),
              zs \in PerGene(population, ZDraws) :
               ParallelMutationCall(mutation_rate, mutation_strength, agent_rolls,
                                    gene_rolls, zs)

SpecBatchMutation == Init /\ [][NextBatchMutation]_vars

\* both mutation operators on one held DNA whose genes start just inside the
\* engine's bound and just inside the batch bound, in steps of 0.1
Dna6 == DnaNew(<<1950, 4950>>, 106, 1)

NextMutation ==
    \/ CreateEngine(ParamsNew(1, 500, 800, 700, 0, 1000, NoFitness, <<>>, 3))
    \/ \E pop \in {<<Dna6>>, <<Dna2>>} : HoldPopulation(pop)
    \/ \E i \in 1..Len(population) :
           \E rolls \in [1..Len(population[i].genes) -> Rolls],
              zs \in [1..Len(population[i].genes) -> ZDraws] :
               EngineMutateCall(i, rolls, zs)
    \/ \E mutation_rate \in Rates :
           \E agent_rolls \in [1..Len(population) -> Rolls],
              gene_rolls \in PerGene(population, Rolls),
              zs \in PerGene(population, ZDraws) :
               ParallelMutationCall(mutation_rate, EngineStd, agent_rolls,
                                    gene_rolls, zs)

SpecMutation == Init /\ [][NextMutation]_vars

\* parallel_crossover on parents of equal and of different gene counts
ParentPairs ==
    { <<<<>>, <<>>>>,
      <<<<Dna1>>, <<Dna2>>>>,
      <<<<Dna2>>, <<Dna1>>>>,
      <<<<Dna1, Dna2>>, <<Dna3, Dna5>>>>,
      <<<<Dna1>>, <<Dna1, Dna2>>>>,
      <<<<Dna1, Dna2>>, <<Dna3>>>> }
\* what gen::<bool>() gives for every gene pair zip() yields
Picks(parents1, parents2) ==
    LET n == Min(Len(parents1), Len(parents2))
    IN  {f \in [1..n -> UNION {[1..k -> BOOLEAN] : k \in 0..2}] :
            \A i \in 1..n :
                Len(f[i]) = Min(Len(parents1[i].genes), Len(parents2[i].genes))}

NextCrossover ==
    \E pair \in ParentPairs, crossover_rate \in Rates, now \in Times :
        \E rolls \in [1..Len(pair[1]) -> Rolls],
           picks \in Picks(pair[1], pair[2]),
           order \in WorkerOrders(Len(pair[1])) :
            ParallelCrossoverCall(pair[1], pair[2], crossover_rate, rolls, picks,
                                  order, now)

SpecCrossover == Init /\ [][NextCrossover]_vars

\* ------------------------------------------------------------------ claims
Last(s) == s[Len(s)]

\* the records the current call has appended
Appended == SubSeq(interaction_history, Len(history0) + 1, Len(interaction_history))

CountStrong(recs) == Cardinality({i \in 1..Len(recs) : recs[i][3] > Scale * Scale})

\* what C1 says of a call in progress and of a call that has returned
C1_Call ==
    /\ pc # "idle" =>
           /\ IsPrefix(history0, interaction_history)
           /\ Len(interaction_history) = Len(history0) + trial
    /\ pc = "done" =>
           IF Len(agents) >= 2
           THEN Len(interaction_history) = Len(history0) + num_interactions
           ELSE sim_ret = 0 /\ interaction_history = history0

\* C1: with at least 2 agents simulate_interactions(n) makes the log exactly
\* n records longer, whatever the strengths, and keeps the old records; with
\* fewer than 2 agents it returns 0 and appends nothing; no step of add_agent
\* or simulate_interactions ever shrinks or rewrites the log.
C1_LogGrowsByN ==
    /\ []C1_Call
    /\ [][IsPrefix(interaction_history, interaction_history')]_vars

\* a call with n = 2 has returned, one record below and one above the threshold
C1_Witness ==
    /\ pc = "done"
    /\ Len(agents) >= 2
    /\ num_interactions = 2
    /\ Len(Appended) = 2
    /\ CountStrong(Appended) = 1

\* C2: when a trial's body runs, the two selected indices differ.
C2_DistinctIndices == pc = "interact" => agent1_idx # agent2_idx

\* a trial's body is about to run in a society of exactly 2 agents
C2_Witness == pc = "interact" /\ Len(agents) = 2

\* C3 as stated: a trial above the threshold gives each of the two selected
\* agents exactly 10 experience points and 1 age and changes no other agent,
\* a trial at or below it changes no agent, and the value returned is the
\* number of records of this call above the threshold.
C3_TrialEffect ==
    /\ [][(pc = "interact" /\ pc' = "select") =>
            IF Last(interaction_history')[3] > Scale * Scale
            THEN \A i \in 1..Len(agents) :
                    IF i \in {agent1_idx, agent2_idx}
                    THEN /\ agents'[i].experience_points =
                                agents[i].experience_points + 10
                         /\ agents'[i].age = agents[i].age + 1
                    ELSE agents'[i] = agents[i]
            ELSE agents' = agents]_vars
    /\ [](pc = "done" /\ Len(agents) >= 2 => sim_ret = CountStrong(Appended))

\* C4: no connection list ever holds a peer id twice, and a trial above the
\* threshold leaves each participant's id in the other's list.
C4_Connections ==
    /\ [](\A i \in 1..Len(agents) : NoDuplicates(agents[i].social_connections))
    /\ [][(pc = "interact" /\ pc' = "select"
              /\ Last(interaction_history')[3] > Scale * Scale) =>
            /\ Contains(agents'[agent1_idx].social_connections,
                        agents[agent2_idx].id)
            /\ Contains(agents'[agent2_idx].social_connections,
                        agents[agent1_idx].id)]_vars

\* two trials above the threshold between the same two agents have been
\* recorded, and an agent that held a connection before it was added took part
C4_Witness ==
    /\ Len(interaction_history) >= 2
    /\ interaction_history[1] = interaction_history[2]
    /\ interaction_history[1][3] > Scale * Scale
    /\ \E i \in 1..Len(agents) : Len(agents[i].social_connections) >= 2

GainStep(kinds) ==
    /\ HasAgent
    /\ call'.op = "gain_experience"
    /\ ncalls' = ncalls + 1
    /\ call'.experience_type \in kinds

\* C5 as stated: gain_experience with a recognized kind adds points to the
\* experience counter and 1 to age, and reports a level-up exactly when the
\* new total is a positive multiple of 1000 and points > 0.
C5_LevelUp ==
    [][GainStep(ExperienceKinds) =>
        /\ call'.ok
        /\ agent'.experience_points = agent.experience_points + call'.points
        /\ agent'.age = agent.age + 1
        /\ call'.level_up <=>
              /\ agent'.experience_points > 0
              /\ agent'.experience_points % 1000 = 0
              /\ call'.points > 0]_vars

\* the same with the counter read as the u64 it is: the sum modulo 2^64, a
\* total of 0 counting as a multiple of 1000
C5_LevelUpWrapping ==
    [][GainStep(ExperienceKinds) =>
        /\ call'.ok
        /\ agent'.experience_points = (agent.experience_points + call'.points) % U64
        /\ agent'.age = agent.age + 1
        /\ call'.level_up <=>
              /\ agent'.experience_points % 1000 = 0
              /\ call'.points > 0]_vars

AllWithinUnit(cs) ==
    \A x \in {cs.attention, cs.memory_capacity, cs.processing_speed,
              cs.creativity, cs.social_awareness, cs.emotional_stability} :
        0 <= x /\ x <= 1000

\* C6: a CognitiveState is constructed only from six arguments within [0,1],
\* and after any sequence of update and gain_experience calls (any kind, any
\* intensity in [-1,1]) every scalar of every agent is within [0,1].
C6_WithinUnit ==
    /\ HasAgent => AllWithinUnit(agent.cognitive_state)
    /\ \A i \in 1..Len(agents) : AllWithinUnit(agents[i].cognitive_state)
    /\ call.op = "new" =>
           /\ call.ok <=> \A i \in 1..6 : 0 <= call.args[i] /\ call.args[i] <= 1000
           /\ call.ok <=> HasAgent

\* a stress update has pushed two scalars that began at 0.04 down to the
\* lower end, after a learning update that raised memory_capacity
C6_Witness ==
    /\ HasAgent
    /\ call.op = "update"
    /\ call.experience_type = "stress"
    /\ agent.cognitive_state.attention = 0
    /\ agent.cognitive_state.emotional_stability = 0
    /\ agent.cognitive_state.memory_capacity = 140

\* C7 as stated: the number of stored entries never exceeds
\* floor(memory_capacity x 100) of the agent's current memory_capacity.
C7_MemoryBounded ==
    HasAgent =>
        Cardinality(agent.memory)
            <= (agent.cognitive_state.memory_capacity * 100) \div 1000

\* C8: make_decision builds an input of len(situation) + 6 + min(4, genes);
\* with a network it succeeds exactly when the first layer's input size is
\* that length, without one it succeeds with 3 elements; the agent is not
\* modified.
C8_MakeDecision ==
    /\ [](call.op = "make_decision" =>
           /\ Len(call.inputs) = Len(call.situation) + 6
                  + (IF Len(agent.genes) < 4 THEN Len(agent.genes) ELSE 4)
           /\ IF agent.decision_network # <<>>
              THEN call.ok <=>
                       agent.decision_network[1].input_size = Len(call.inputs)
              ELSE call.ok /\ Len(call.out) = 3)
    /\ [][call'.op = "make_decision" => agent' = agent]_vars

\* with a network attached, a decision has succeeded on an agent of 5 genes
C8_Witness ==
    /\ call.op = "make_decision"
    /\ agent.decision_network # <<>>
    /\ Len(agent.genes) = 5
    /\ call.ok

\* the decisions collective_decision collects
DecisionOf(k, situation) == MakeDecision(agents[k], situation)

\* C9 as stated: the zero 3-vector for an empty society; otherwise the
\* failure of any agent's make_decision fails the call, and else the call
\* returns the element-wise mean of all decisions, as long as the first one.
C9_CollectiveDecision ==
    [][(agents' = agents /\ call'.op = "collective_decision") =>
        IF Len(agents) = 0
        THEN call'.outcome = "ok" /\ call'.out = <<0, 0, 0>>
        ELSE IF \E k \in 1..Len(agents) : ~DecisionOf(k, call'.situation).ok
        THEN call'.outcome = "err"
        ELSE /\ call'.outcome = "ok"
             /\ Len(call'.out) = Len(DecisionOf(1, call'.situation).out)
             /\ \A i \in 1..Len(call'.out) :
                    call'.out[i] =
                        ColumnSum([k \in 1..Len(agents) |->
                                      DecisionOf(k, call'.situation).out],
                                  i, Len(agents)) \div Len(agents)]_vars

\* C10: forward on a constructed layer returns output_size elements when the
\* input has input_size elements, and fails with no output otherwise.
C10_LayerForward ==
    call.op = "layer_forward" =>
        IF Len(call.inputs) = layer.input_size
        THEN call.ok /\ Len(call.out) = layer.output_size
        ELSE ~call.ok /\ call.out = <<>>

\* a forward pass has succeeded on a layer with 2 inputs and 1 output
C10_Witness ==
    /\ call.op = "layer_forward"
    /\ call.ok
    /\ layer.input_size = 2
    /\ layer.output_size = 1
    /\ Len(call.inputs) = 2

\* layer[i].output_size == layer[i+1].input_size for all consecutive layers
Chained(layers) ==
    \A i \in 1..(Len(layers) - 1) : layers[i].output_size = layers[i + 1].input_size

\* C11: a constructed network has at least one layer and its layers chain;
\* forward fails exactly when the input length differs from the first layer's
\* input_size, a successful forward returns as many elements as the last
\* layer's output_size, and get_architecture has one element more than the
\* network has layers.
C11_NetworkShape ==
    /\ call.op = "network_new" => (call.ok <=> HasNetwork)
    /\ HasNetwork =>
           /\ Len(net.layers) >= 1
           /\ net.layer_count = Len(net.layers)
           /\ Chained(net.layers)
    /\ call.op = "network_forward" =>
           /\ ~call.ok <=> Len(call.inputs) # net.layers[1].input_size
           /\ call.ok => Len(call.out) = Last(net.layers).output_size
           /\ ~call.ok => call.out = <<>>
    /\ call.op = "get_architecture" => Len(call.out) = Len(net.layers) + 1

\* a forward pass has succeeded through two layers of sizes 1 -> 2 -> 1
C11_Witness ==
    /\ HasNetwork
    /\ Len(net.layers) = 2
    /\ net.layers[1].input_size = 1
    /\ net.layers[1].output_size = 2
    /\ call.op = "network_forward"
    /\ call.ok
    /\ Len(call.out) = 1

\* C12: batch_forward on rows that all have the right length returns one
\* output per row, result[i] being forward(batch[i]) whatever the order the
\* workers finish in; an empty batch gives an empty result and no error; one
\* failing row fails the call with no partial result.
C12_BatchForward ==
    call.op = "batch_forward" =>
        IF \A i \in 1..Len(call.batch_inputs) :
               Len(call.batch_inputs[i]) = net.layers[1].input_size
        THEN /\ call.ok
             /\ Len(call.out) = Len(call.batch_inputs)
             /\ \A i \in 1..Len(call.batch_inputs) :
                    /\ NetworkForward(net.layers, call.batch_inputs[i]).ok
                    /\ call.out[i] =
                           NetworkForward(net.layers, call.batch_inputs[i]).out
        ELSE ~call.ok /\ call.out = <<>>

\* three rows with three different outputs came back in the rows' order
\* although the workers finished in the reverse order
C12_Witness ==
    /\ call.op = "batch_forward"
    /\ call.ok
    /\ Len(call.batch_inputs) = 3
    /\ call.order = <<3, 2, 1>>
    /\ call.out[1] # call.out[2]
    /\ call.out[2] # call.out[3]
    /\ call.out[1] # call.out[3]

\* C13 as stated: when the networks' outputs differ in length, the call
\* fails with an error and returns no average.
C13_EnsembleMismatch ==
    (/\ call.op = "ensemble_predict"
     /\ Len(call.networks) > 0
     /\ \A k \in 1..Len(call.networks) :
            NetworkForward(call.networks[k], call.inputs).ok
     /\ \E j, k \in 1..Len(call.networks) :
            Len(NetworkForward(call.networks[j], call.inputs).out)
                # Len(NetworkForward(call.networks[k], call.inputs).out))
        => call.outcome = "err" /\ call.out = <<>>

Within(x, bound) == -bound <= x /\ x <= bound

\* C14: create_random_population fails with no population exactly when
\* gene_count is 0 or above 10,000; otherwise it returns population_size DNA
\* of gene_count genes within [-1,1], without fitness, of generation 0,
\* without parent ids and with mutation counter 0, in every worker order.
C14_RandomPopulation ==
    call.op = "create_random_population" =>
        /\ ~call.ok <=> (call.gene_count = 0 \/ call.gene_count > 10000)
        /\ ~call.ok => call.out = <<>>
        /\ call.ok =>
               /\ Len(call.out) = engine.params.population_size
               /\ \A i \in 1..Len(call.out) :
                      /\ Len(call.out[i].genes) = call.gene_count
                      /\ \A j \in 1..Len(call.out[i].genes) :
                             Within(call.out[i].genes[j], 1000)
                      /\ call.out[i].fitness = <<>>
                      /\ call.out[i].generation = 0
                      /\ call.out[i].parent_ids = <<>>
                      /\ call.out[i].mutations = 0

\* a population of 2 DNA of 2 genes was made by workers that ran in the
\* reverse order
C14_Witness ==
    /\ call.op = "create_random_population"
    /\ call.ok
    /\ call.gene_count = 2
    /\ Len(call.out) = 2
    /\ call.order = <<2, 1>>
    /\ call.out[1].genes # call.out[2].genes

\* C15 as stated: every call of the engine's mutate raises the DNA's
\* mutation counter by exactly 1, however many genes were perturbed.
C15_MutateCountsOnce ==
    call.op = "mutate" =>
        population[call.index].mutations = call.before.mutations + 1

\* C16: mutation never changes the gene count; a gene perturbed by the
\* engine's mutate ends within [-2,2] and one perturbed by parallel_mutation
\* within [-5,5]; a gene not selected keeps its value; so genes that were all
\* inside an operator's bound are all inside it after the call.
C16_MutationBounds ==
    /\ call.op = "mutate" =>
           LET b == call.before
               a == population[call.index]
           IN  /\ Len(a.genes) = Len(b.genes)
               /\ \A j \in 1..Len(b.genes) :
                      IF call.rolls[j] < engine.params.mutation_rate
                      THEN Within(a.genes[j], 2000)
                      ELSE a.genes[j] = b.genes[j]
               /\ (\A j \in 1..Len(b.genes) : Within(b.genes[j], 2000))
                      => \A j \in 1..Len(a.genes) : Within(a.genes[j], 2000)
    /\ call.op = "parallel_mutation" =>
           /\ Len(population) = Len(call.before)
           /\ \A i \in 1..Len(call.before) :
                  LET b == call.before[i]
                      a == population[i]
                  IN  /\ Len(a.genes) = Len(b.genes)
                      /\ \A j \in 1..Len(b.genes) :
                             IF /\ call.agent_rolls[i] < call.mutation_rate
                                /\ call.gene_rolls[i][j] < GeneRate
                             THEN Within(a.genes[j], 5000)
                             ELSE a.genes[j] = b.genes[j]
                      /\ (\A j \in 1..Len(b.genes) : Within(b.genes[j], 5000))
                             => \A j \in 1..Len(a.genes) : Within(a.genes[j], 5000)

\* the engine's mutate has stopped the first gene at 2.0 and parallel_mutation
\* has now stopped the second at 5.0
C16_Witness ==
    /\ call.op = "parallel_mutation"
    /\ Len(population) = 1
    /\ call.before[1].genes = <<2000, 4950>>
    /\ population[1].genes = <<2000, 5000>>

\* pair i of the last parallel_crossover call was crossed
Triggered(i) == call.rolls[i] < call.crossover_rate

\* C17: parallel_crossover fails with no offspring when the parent sequences
\* differ in length; otherwise it returns as many offspring as pairs, and
\* offspring i comes from parents1[i] and parents2[i] in every worker order.
C17_CrossoverPairs ==
    call.op = "parallel_crossover" =>
        /\ ~call.ok <=> Len(call.parents1) # Len(call.parents2)
        /\ ~call.ok => call.out = <<>>
        /\ call.ok =>
               /\ Len(call.out) = Len(call.parents1)
               /\ \A i \in 1..Len(call.out) :
                      IF Triggered(i)
                      THEN /\ call.out[i].parent_ids =
                                  <<call.parents1[i].id, call.parents2[i].id>>
                           /\ \A j \in 1..Len(call.out[i].genes) :
                                  call.out[i].genes[j] \in
                                      {call.parents1[i].genes[j],
                                       call.parents2[i].genes[j]}
                      ELSE call.out[i].genes = call.parents1[i].genes

\* two pairs came back in the pairs' order from workers that ran in the
\* reverse order, the first pair crossed and the second not
C17_Witness ==
    /\ call.op = "parallel_crossover"
    /\ call.ok
    /\ Len(call.out) = 2
    /\ call.order = <<2, 1>>
    /\ Triggered(1)
    /\ ~Triggered(2)

\* the ids of every parent handed to the last parallel_crossover call
ParentIds ==
    {call.parents1[i].id : i \in 1..Len(call.parents1)}
        \cup {call.parents2[i].id : i \in 1..Len(call.parents2)}

\* C18: a crossed pair gives a new DNA each of whose genes is the gene of one
\* of the two parents at that position, with an id no parent and no other
\* offspring has and with parent_ids [parents1[i].id, parents2[i].id]; with
\* crossover_rate 1.0 every pair is crossed.
C18_CrossedOffspring ==
    (call.op = "parallel_crossover" /\ call.ok) =>
        /\ call.crossover_rate = 1000 => \A i \in 1..Len(call.out) : Triggered(i)
        /\ \A i \in 1..Len(call.out) :
               Triggered(i) =>
                   LET c == call.out[i]
                       p1 == call.parents1[i]
                       p2 == call.parents2[i]
                   IN  /\ \A j \in 1..Len(c.genes) :
                              c.genes[j] = p1.genes[j] \/ c.genes[j] = p2.genes[j]
                       /\ c.id \notin ParentIds
                       /\ \A k \in 1..Len(call.out) : k # i => call.out[k].id # c.id
                       /\ Len(c.parent_ids) = 2
                       /\ c.parent_ids[1] = p1.id
                       /\ c.parent_ids[2] = p2.id
                       /\ c.fitness = <<>>
                       /\ c.generation = 0
                       /\ c.mutations = 0
                       /\ c.metadata = {}

\* with crossover_rate 1.0 an offspring took its first gene from parents1 and
\* its second from parents2
C18_Witness ==
    /\ call.op = "parallel_crossover"
    /\ call.ok
    /\ call.crossover_rate = 1000
    /\ Len(call.out) = 2
    /\ call.parents1[1].genes = <<1950, -1950>>
    /\ call.parents2[1].genes = <<3000, 100>>
    /\ call.out[1].genes = <<1950, 100>>

\* C19 as stated: every offspring has as many genes as parents1[i], crossed
\* or not, also when the two parents differ in gene count.
C19_OffspringLength ==
    (call.op = "parallel_crossover" /\ call.ok) =>
        \A i \in 1..Len(call.out) :
            Len(call.out[i].genes) = Len(call.parents1[i].genes)

\* C20: a pair that is not crossed gives parents1[i] again, every field but
\* the id equal, under an id that differs from the parent's; parents2[i] has
\* no part in it; with crossover_rate 0 no pair is crossed.
C20_CloneOffspring ==
    (call.op = "parallel_crossover" /\ call.ok) =>
        /\ call.crossover_rate = 0 => \A i \in 1..Len(call.out) : ~Triggered(i)
        /\ \A i \in 1..Len(call.out) :
               ~Triggered(i) =>
                   /\ call.out[i] = [call.parents1[i] EXCEPT !.id = call.out[i].id]
                   /\ call.out[i].id # call.parents1[i].id
                   /\ call.out[i].id \notin ParentIds

\* a parent with fitness, parents, mutations and metadata came back under a
\* new id, the other parent having fewer genes
C20_Witness ==
    /\ call.op = "parallel_crossover"
    /\ call.ok
    /\ Len(call.out) = 1
    /\ ~Triggered(1)
    /\ call.parents1[1].fitness = <<500>>
    /\ call.parents1[1].metadata # {}
    /\ Len(call.parents2[1].genes) < Len(call.parents1[1].genes)
    /\ call.out[1].mutations = call.parents1[1].mutations

\* agent i of the last parallel_mutation call was selected at the outer
\* probability
Selected(i) == call.agent_rolls[i] < call.mutation_rate

\* C21 as stated: parallel_mutation returns as many agents in the same order;
\* a selected agent's mutation counter is 1 above what it was, whatever its
\* genes did, and an agent not selected comes back unchanged.
C21_BatchMutation ==
    call.op = "parallel_mutation" =>
        /\ Len(population) = Len(call.before)
        /\ \A i \in 1..Len(call.before) :
               /\ population[i].id = call.before[i].id
               /\ IF Selected(i)
                  THEN population[i].mutations = call.before[i].mutations + 1
                  ELSE population[i] = call.before[i]

\* the same with the counter read as the u32 it is: 1 more modulo 2^32, and
\* nothing but genes and counter differs in a selected agent
C21_BatchMutationWrapping ==
    call.op = "parallel_mutation" =>
        /\ Len(population) = Len(call.before)
        /\ \A i \in 1..Len(call.before) :
               IF Selected(i)
               THEN population[i] =
                        [call.before[i] EXCEPT
                            !.genes = population[i].genes,
                            !.mutations = (call.before[i].mutations + 1) % U32]
               ELSE population[i] = call.before[i]

\* C22 as stated: every parameter object that exists satisfies the range and
\* positivity conditions, the one handed to GeneticEngine::new included, and
\* an engine never holds parameters that break them.
C22_ParamsChecked ==
    /\ call.op = "engine_new" => Validate(call.params)
    /\ HasEngine => Validate(engine.params)

\* C23 as stated: gain_experience with an unrecognized kind fails and leaves
\* the experience counter, the age and the cognitive state as they were.
C23_UnknownKind ==
    [][GainStep({"unknown"}) =>
        /\ ~call'.ok
        /\ agent'.experience_points = agent.experience_points
        /\ agent'.age = agent.age
        /\ agent'.cognitive_state = agent.cognitive_state]_vars

\* C24: store_memory of a key that is not stored: below the limit every old
\* entry stays and the size grows by 1; at a positive limit exactly one old
\* entry goes and the size stays; either way the key then maps to the value.
C24_StoreNewKey ==
    (call.op = "store_memory" /\ call.key \notin MemKeys(call.before)) =>
        LET limit == MemoryLimit(agent.cognitive_state)
            size == Cardinality(call.before)
        IN  /\ size < limit =>
                   /\ call.before \subseteq agent.memory
                   /\ Cardinality(agent.memory) = size + 1
            /\ (size = limit /\ limit > 0) =>
                   /\ Cardinality(call.before \ agent.memory) = 1
                   /\ Cardinality(agent.memory) = size
            /\ \A e \in agent.memory : e[1] = call.key <=> e = <<call.key, call.value>>
            /\ <<call.key, call.value>> \in agent.memory

\* a third key went into a store that was full at its limit of 2
C24_Witness ==
    /\ call.op = "store_memory"
    /\ call.key \notin MemKeys(call.before)
    /\ MemoryLimit(agent.cognitive_state) = 2
    /\ Cardinality(call.before) = 2
    /\ Cardinality(agent.memory) = 2
    /\ <<call.key, call.value>> \in agent.memory

\* the weight matrix has output_size rows of input_size entries
Shaped(l) ==
    /\ Len(l.weights) = l.output_size
    /\ \A i \in 1..Len(l.weights) : Len(l.weights[i]) = l.input_size

\* C25: a constructed layer's weights always have output_size rows of
\* input_size entries; update_weights installs a matrix of that shape and
\* nothing else, and rejects any other matrix leaving the layer as it was.
C25_WeightShape ==
    /\ [](HasLayer => Shaped(layer))
    /\ [][(HasLayer /\ call'.op = "update_weights") =>
            LET fits == /\ Len(call'.new_weights) = layer.output_size
                        /\ \A i \in 1..Len(call'.new_weights) :
                               Len(call'.new_weights[i]) = layer.input_size
            IN  IF fits
                THEN call'.ok /\ layer' = [layer EXCEPT !.weights = call'.new_weights]
                ELSE ~call'.ok /\ layer' = layer]_vars

\* a matrix with the right number of rows, the second one too long, was
\* rejected by a 2 x 2 layer
C25_Witness ==
    /\ call.op = "update_weights"
    /\ ~call.ok
    /\ layer.input_size = 2
    /\ layer.output_size = 2
    /\ Len(call.new_weights) = 2
    /\ Len(call.new_weights[1]) = 2
    /\ Len(call.new_weights[2]) = 3

\* C29 as stated: store_memory of a key that is stored only replaces that
\* key's value; every other entry stays and the size is unchanged, also in a
\* store at its limit.
C29_Overwrite ==
    (call.op = "store_memory" /\ call.key \in MemKeys(call.before)) =>
        /\ agent.memory = MemInsert(call.before, call.key, call.value)
        /\ Cardinality(agent.memory) = Cardinality(call.before)

\* agent i holds the id of agent j
Knows(i, j) == Contains(agents[i].social_connections, agents[j].id)

\* the society's agents have pairwise distinct ids
DistinctIds ==
    \A i, j \in 1..Len(agents) : agents[i].id = agents[j].id => i = j

\* every agent of the society was handed to add_agent without connections
StartedUnconnected ==
    \A i \in 1..Len(agents) :
        \E p \in SocietyAgents :
            p.genes = agents[i].genes /\ p.social_connections = <<>>

\* C26: in a society of pairwise distinct ids whose agents were added without
\* connections, A lists B exactly when B lists A, no agent lists itself, and
\* no agent lists more ids than there are other agents.
C26_SymmetricConnections ==
    (DistinctIds /\ StartedUnconnected) =>
        \A i \in 1..Len(agents) :
            /\ \A j \in 1..Len(agents) : Knows(i, j) <=> Knows(j, i)
            /\ ~Knows(i, i)
            /\ Len(agents[i].social_connections) <= Len(agents) - 1

\* three agents of distinct ids, one of them connected to both others
C26_Witness ==
    /\ DistinctIds
    /\ StartedUnconnected
    /\ Len(agents) = 3
    /\ \E i \in 1..Len(agents) : Len(agents[i].social_connections) = 2

\* C27: a call of simulate_interactions that has entered its loop reaches its
\* return with exactly num_interactions trials done and a count between 0 and
\* num_interactions, and every resampling loop is left.
C27_Terminates ==
    /\ (pc \in {"select", "resample", "interact"})
           ~> (/\ pc = "done"
               /\ trial = num_interactions
               /\ sim_ret \in 0..num_interactions)
    /\ (pc = "resample") ~> (pc = "interact" /\ agent1_idx # agent2_idx)

\* a call with n = 2 in a society of 2 agents has returned after 2 trials
C27_Witness ==
    /\ pc = "done"
    /\ Len(agents) = 2
    /\ num_interactions = 2
    /\ trial = 2
    /\ Len(Appended) = 2

\* every agent's social_awareness is at most 0.5
Quiet == \A i \in 1..Len(agents) : agents[i].cognitive_state.social_awareness <= 500

\* C28: a trial counts as an interaction only when the two selected agents'
\* social_awareness has a mean above 0.5; while every agent is at 0.5 or
\* below, a trial changes no agent and counts nothing, only appending a
\* record, and every call returns 0.
C28_QuietSociety ==
    /\ [][(pc = "interact" /\ pc' = "select") =>
            /\ Len(interaction_history') = Len(interaction_history) + 1
            /\ (agents' # agents \/ interactions_created' # interactions_created) =>
                   agents[agent1_idx].cognitive_state.social_awareness
                       + agents[agent2_idx].cognitive_state.social_awareness
                           > 2 * 500
            /\ Quiet =>
                   /\ agents' = agents
                   /\ interactions_created' = interactions_created]_vars
    /\ []((pc = "done" /\ Quiet) => sim_ret = 0)

\* a call with n = 2 has returned 0 in a society of two agents at 0.5, one of
\* its trials with a random factor just below 1
C28_Witness ==
    /\ pc = "done"
    /\ Quiet
    /\ Len(agents) = 2
    /\ num_interactions = 2
    /\ Len(Appended) = 2
    /\ Last(interaction_history)[3] = (500 + 500) * 999
    /\ sim_ret = 0

====
